---- MODULE Spec2Model ----
(***************************************************************************)
(* A model of image_converter.py: the format resolver, the single-image   *)
(* converter, the file enumerator, the batch converter and the top-level   *)
(* entry point.  Python strings are tuples of one-character strings, so    *)
(* that lower(), endswith(), splitext() and replace() are computed and not *)
(* assumed.  A path is a tuple of components (the text between separators).*)
(***************************************************************************)
EXTENDS Integers, Sequences, FiniteSets, TLC

VARIABLES
    pc,            \* position of the control thread
    args,          \* the parsed command line (argparse.Namespace)
    fs,            \* the filesystem: path -> entry
    fmt,           \* output_format (or the exception get_output_format raised)
    image_files,   \* process_directory: the list find_image_files returned
    idx,           \* process_directory: position of the for loop in image_files
    success_count, \* process_directory: success_count
    io,            \* process_image: its arguments input_path, output_path
    img,           \* process_image: the image object img (mode, size)
    wh,            \* process_image: the locals width, height
    ret,           \* process_image: its return value
    result,        \* process_directory: its return value (success_count, total)
    log,           \* what was printed, as a set of messages
    exit_status,   \* the process's exit status once it has exited
    hist           \* history: calls of process_image, failures, interrupts

vars == <<pc, args, fs, fmt, image_files, idx, success_count, io, img, wh,
          ret, result, log, exit_status, hist>>

----------------------------------------------------------------------------
(* Strings *)

None == <<"None">>

Uppers == <<"A","B","C","D","E","F","G","H","I","J","K","L","M",
            "N","O","P","Q","R","S","T","U","V","W","X","Y","Z">>
Lowers == <<"a","b","c","d","e","f","g","h","i","j","k","l","m",
            "n","o","p","q","r","s","t","u","v","w","x","y","z">>

\* str.lower() on one character
LowerChar(c) ==
    IF \E i \in DOMAIN Uppers : Uppers[i] = c
    THEN Lowers[CHOOSE i \in DOMAIN Uppers : Uppers[i] = c]
    ELSE c

\* str.lower()
lower(s) == [i \in DOMAIN s |-> LowerChar(s[i])]

\* str.endswith(suffix)
endswith(s, suffix) ==
    /\ Len(suffix) <= Len(s)
    /\ SubSeq(s, Len(s) - Len(suffix) + 1, Len(s)) = suffix

\* str.replace('.', '')
replace_dots(s) == SelectSeq(s, LAMBDA c : c # ".")

\* str.rfind('.') on a component, 1-based; 0 when there is none
rfind_dot(s) ==
    IF \E i \in DOMAIN s : s[i] = "."
    THEN CHOOSE i \in DOMAIN s : s[i] = "." /\ \A j \in DOMAIN s : s[j] = "." => j <= i
    ELSE 0

\* os.path.splitext on a path component: the extension starts at the last
\* dot, unless only dots precede it (a leading-dot name has no extension).
splitext(name) ==
    LET d == rfind_dot(name) IN
    IF d > 0 /\ \E i \in 1..(d - 1) : name[i] # "."
    THEN <<SubSeq(name, 1, d - 1), SubSeq(name, d, Len(name))>>
    ELSE <<name, <<>>>>

\* os.path.basename, os.path.dirname, os.path.join on component tuples
basename(path) == IF path = <<>> THEN <<>> ELSE path[Len(path)]
dirname(path) == IF path = <<>> THEN <<>> ELSE SubSeq(path, 1, Len(path) - 1)
join(dir, name) == Append(dir, name)

----------------------------------------------------------------------------
(* SUPPORTED_FORMATS *)

jpg  == <<"j","p","g">>
jpeg == <<"j","p","e","g">>
png  == <<"p","n","g">>
webp == <<"w","e","b","p">>
bmp  == <<"b","m","p">>
tiff == <<"t","i","f","f">>
gif  == <<"g","i","f">>

\* the dict, in insertion order
SUPPORTED_FORMATS ==
    << <<jpg, "JPEG">>, <<jpeg, "JPEG">>, <<png, "PNG">>, <<webp, "WEBP">>,
       <<bmp, "BMP">>, <<tiff, "TIFF">>, <<gif, "GIF">> >>

\* SUPPORTED_FORMATS.keys()
FormatKeys == {SUPPORTED_FORMATS[i][1] : i \in DOMAIN SUPPORTED_FORMATS}

\* SUPPORTED_FORMATS[k]; a missing key raises KeyError
KeyError == "KeyError"
FormatLookup(k) ==
    IF k \in FormatKeys
    THEN SUPPORTED_FORMATS[CHOOSE i \in DOMAIN SUPPORTED_FORMATS :
                               SUPPORTED_FORMATS[i][1] = k][2]
    ELSE KeyError

\* Python truthiness of an Optional[str]
Truthy(s) == s # None /\ s # <<>>

get_output_format_NoLower(output_path, specified_type) ==
    IF Truthy(specified_type)
    THEN FormatLookup(specified_type)
    ELSE LET ext == replace_dots(splitext(basename(output_path))[2]) IN
         IF ext \in FormatKeys THEN FormatLookup(ext) ELSE "JPEG"

get_output_format(output_path, specified_type) ==
    IF Truthy(specified_type)
    THEN FormatLookup(lower(specified_type))
    ELSE LET ext == replace_dots(lower(splitext(basename(output_path))[2])) IN
         IF ext \in FormatKeys THEN FormatLookup(ext) ELSE "JPEG"

----------------------------------------------------------------------------
(* Python float: IEEE 754 binary64, round to nearest, ties to even.        *)
(* A positive double is [m, e]: the value is 1.f * 2^e, where the 52       *)
(* fraction bits f are held as the four 13-bit limbs m[1..4], the most     *)
(* significant first.  Only the operations process_image uses are          *)
(* modelled: int / float, float * float with one factor an integer, and    *)
(* int(float), on positive values.                                         *)

LimbBits == 13
Limbs == 4

RECURSIVE Pow2(_)
Pow2(n) == IF n = 0 THEN 1 ELSE 2 * Pow2(n - 1)

LimbBase == Pow2(LimbBits)

\* [m, e] one unit in the last place up; 1.11..1 becomes 1.00..0 * 2^(e + 1)
RoundUp(m, e) ==
    LET c4 == (m[4] + 1) \div LimbBase
        c3 == (m[3] + c4) \div LimbBase
        c2 == (m[2] + c3) \div LimbBase
        c1 == (m[1] + c2) \div LimbBase
    IN  [m |-> <<(m[1] + c2) % LimbBase, (m[2] + c3) % LimbBase,
                 (m[3] + c4) % LimbBase, (m[4] + 1) % LimbBase>>,
         e |-> e + c1]

\* the largest s >= 0 with b * 2^s <= a   (a >= b)
RECURSIVE ShiftDown(_, _)
ShiftDown(a, b) == IF 2 * b <= a THEN 1 + ShiftDown(a, 2 * b) ELSE 0

\* the smallest t >= 0 with a * 2^t >= b
RECURSIVE ShiftUp(_, _)
ShiftUp(a, b) == IF a >= b THEN 0 ELSE 1 + ShiftUp(2 * a, b)

\* a / float(b) for integers a, b > 0: the correctly rounded quotient, by
\* long division, one limb at a time
fdiv(a, b) ==
    LET e == IF a >= b THEN ShiftDown(a, b) ELSE 0 - ShiftUp(a, b)
        n == IF e < 0 THEN a * Pow2(0 - e) ELSE a
        d == IF e > 0 THEN b * Pow2(e) ELSE b
        r0 == n - d
        r1 == (r0 * LimbBase) % d
        r2 == (r1 * LimbBase) % d
        r3 == (r2 * LimbBase) % d
        r4 == (r3 * LimbBase) % d
        m == <<(r0 * LimbBase) \div d, (r1 * LimbBase) \div d,
               (r2 * LimbBase) \div d, (r3 * LimbBase) \div d>>
        up == 2 * r4 > d \/ (2 * r4 = d /\ m[4] % 2 = 1)
    IN  IF up THEN RoundUp(m, e) ELSE [m |-> m, e |-> e]

\* the number of bits of n > 0
RECURSIVE BitLength(_)
BitLength(n) == IF n < 2 THEN 1 ELSE 1 + BitLength(n \div 2)

\* float(k) * x for an integer 0 < k < 2^13: the correctly rounded product
fmul(k, x) ==
    LET t4 == k * x.m[4]
        t3 == k * x.m[3] + t4 \div LimbBase
        t2 == k * x.m[2] + t3 \div LimbBase
        t1 == k * x.m[1] + t2 \div LimbBase
        t0 == k + t1 \div LimbBase
        p == <<t0, t1 % LimbBase, t2 % LimbBase, t3 % LimbBase, t4 % LimbBase>>
        sh == BitLength(t0) - 1
        low == Pow2(sh)
        high == Pow2(LimbBits - sh)
        m == [i \in 1..Limbs |-> p[i + 1] \div low + (p[i] % low) * high]
        rem == p[5] % low
        up == sh > 0 /\ (2 * rem > low \/ (2 * rem = low /\ m[4] % 2 = 1))
    IN  IF up THEN RoundUp(m, x.e + sh) ELSE [m |-> m, e |-> x.e + sh]

\* int(x): truncation toward zero, for a positive double below 2^27
ftrunc(x) ==
    IF x.e < 0 THEN 0
    ELSE IF x.e <= LimbBits
    THEN Pow2(x.e) + x.m[1] \div Pow2(LimbBits - x.e)
    ELSE Pow2(x.e) + x.m[1] * Pow2(x.e - LimbBits)
                   + x.m[2] \div Pow2(2 * LimbBits - x.e)

\* lines 142-143: wpercent = width / float(img.size[0]);
\*                height = int(float(img.size[1]) * float(wpercent))
\* and lines 145-146 with the axes exchanged: `given` is the requested
\* dimension, `same` the image's size on that axis, `other` its size on the
\* other axis.
Proportional(given, same, other) == ftrunc(fmul(other, fdiv(given, same)))

----------------------------------------------------------------------------
(* The filesystem.  fs maps each existing path to its entry: a directory,  *)
(* or a file with its content.  A file's content is "text" (not an image), *)
(* or an image record [src, mode, size, complete]: src is "original" for a *)
(* file that was there before the run and else the input path the file was *)
(* converted from; complete is FALSE while the file is open for writing    *)
(* and its encoding has not finished.                                      *)

Dir == [kind |-> "dir"]
File(data) == [kind |-> "file", data |-> data]
Image(src, mode, size, complete) ==
    [src |-> src, mode |-> mode, size |-> size, complete |-> complete]

Exists(f, p) == p \in DOMAIN f
IsDir(f, p) == Exists(f, p) /\ f[p].kind = "dir"
IsFile(f, p) == Exists(f, p) /\ f[p].kind = "file"

\* os.listdir(d): the names in d are the paths one component longer
Children(f, d) == {p \in DOMAIN f : Len(p) = Len(d) + 1 /\ dirname(p) = d}

Prefixes(p) == {SubSeq(p, 1, n) : n \in 0..Len(p)}

\* os.makedirs(d, exist_ok=True) raises when a component of d exists and
\* is not a directory
MakedirsRaises(f, d) == \E q \in Prefixes(d) : IsFile(f, q)

\* os.makedirs(d, exist_ok=True): every missing component is created
Makedirs(f, d) ==
    [p \in DOMAIN f \cup Prefixes(d) |-> IF p \in DOMAIN f THEN f[p] ELSE Dir]

Write(f, p, entry) == [q \in DOMAIN f \cup {p} |-> IF q = p THEN entry ELSE f[q]]
Remove(f, p) == [q \in DOMAIN f \ {p} |-> f[q]]

----------------------------------------------------------------------------
(* find_image_files *)

\* valid_extensions = tuple(f".{ext}" for ext in SUPPORTED_FORMATS.keys())
valid_extensions == {<<".">> \o k : k \in FormatKeys}

\* file.lower().endswith(valid_extensions)
NameMatches(name) == \E e \in valid_extensions : endswith(lower(name), e)

\* the orders in which a directory listing may come: any
Perms(S) ==
    {q \in [1..Cardinality(S) -> S] : \A i, j \in DOMAIN q : q[i] = q[j] => i = j}

\* one sequence from each set of a tuple of sets of sequences, concatenated
RECURSIVE ConcatChoices(_)
ConcatChoices(sets) ==
    IF sets = <<>> THEN {<<>>}
    ELSE {a \o b : a \in Head(sets), b \in ConcatChoices(Tail(sets))}

\* lines 182-185: os.walk(directory), top-down: the matching non-directory
\* names of a directory, then its subdirectories one after the other
RECURSIVE Walk(_, _)
Walk(f, d) ==
    LET files == {p \in Children(f, d) : IsFile(f, p) /\ NameMatches(basename(p))}
        dirs == {p \in Children(f, d) : IsDir(f, p)}
    IN  {a \o b : a \in Perms(files),
                  b \in UNION {ConcatChoices([i \in DOMAIN o |-> Walk(f, o[i])]) :
                                  o \in Perms(dirs)}}

\* lines 187-189: os.listdir(directory) names files and directories alike
Listdir(f, d) == Perms({p \in Children(f, d) : NameMatches(basename(p))})

\* the lists find_image_files(directory, recursive) may return
find_image_files(f, directory, recursive) ==
    IF recursive THEN Walk(f, directory) ELSE Listdir(f, directory)

----------------------------------------------------------------------------
(* process_directory: the destination of an input file *)

\* line 230: next((k for k, v in SUPPORTED_FORMATS.items() if v == output_format), 'jpg')
FormatExt(output_format) ==
    IF \E i \in DOMAIN SUPPORTED_FORMATS : SUPPORTED_FORMATS[i][2] = output_format
    THEN SUPPORTED_FORMATS[CHOOSE i \in DOMAIN SUPPORTED_FORMATS :
            /\ SUPPORTED_FORMATS[i][2] = output_format
            /\ \A j \in 1..(i - 1) : SUPPORTED_FORMATS[j][2] # output_format][1]
    ELSE jpg

\* os.path.relpath(input_path, input_dir) for a path under input_dir
relpath(path, start) == SubSeq(path, Len(start) + 1, Len(path))

\* lines 239-240: rel_dir
RelDir(input_path, input_dir) == dirname(relpath(input_path, input_dir))

\* lines 238-251: output_path
OutputPath(input_path, input_dir, output_dir, recursive, output_format) ==
    LET filename == splitext(basename(input_path))[1]
        name == filename \o <<".">> \o FormatExt(output_format)
    IN  IF recursive
        THEN join(output_dir \o RelDir(input_path, input_dir), name)
        ELSE join(output_dir, name)

----------------------------------------------------------------------------
(* process_image: colour modes, sizes, encoders *)

Modes == {"L", "LA", "P", "RGB", "RGBA"}
Formats == {SUPPORTED_FORMATS[i][2] : i \in DOMAIN SUPPORTED_FORMATS}

\* the number of channels of a mode
Channels(mode) ==
    CASE mode = "L" -> 1 [] mode = "P" -> 1 [] mode = "LA" -> 2
      [] mode = "RGB" -> 3 [] mode = "RGBA" -> 4

HasAlpha(mode) == mode \in {"LA", "RGBA"}

\* lines 132-136 with the two tests in the other order
ConvertedMode_AlphaFirst(mode, grayscale, output_format) ==
    IF mode = "RGBA" /\ output_format = "JPEG" THEN "RGB"
    ELSE IF grayscale THEN "L"
    ELSE mode

\* lines 132-136: the mode of img after the colour mode conversion
ConvertedMode(mode, grayscale, output_format) ==
    IF grayscale THEN "L"
    ELSE IF mode = "RGBA" /\ output_format = "JPEG" THEN "RGB"
    ELSE mode

\* lines 139-146: the size handed to img.resize; an absent width or height
\* is 0 (None and 0 are both false in `if width or height`)
NewSize(width, height, size) ==
    IF width # 0 /\ height = 0
    THEN <<width, Proportional(width, size[1], size[2])>>
    ELSE IF height # 0 /\ width = 0
    THEN <<Proportional(height, size[2], size[1]), height>>
    ELSE <<width, height>>

\* line 160: the modes the library's encoder of a format writes; JPEG has
\* no alpha channel and no palette (line 135)
Writable(output_format, mode) ==
    CASE output_format = "JPEG" -> mode \in {"L", "RGB"}
      [] output_format = "BMP" -> mode \in {"L", "P", "RGB", "RGBA"}
      [] OTHER -> TRUE

----------------------------------------------------------------------------
(* State shared by the operations *)

Original == << <<"original">> >>
NoImg == [mode |-> "none", size |-> <<0, 0>>]
NoIo == [input_path |-> <<>>, output_path |-> <<>>, created |-> FALSE]
NoResult == <<-1, -1>>
NoFiles == <<>>

\* a printed line: its kind, the path it names, the two counts it names
Msg(kind, path, n, m) == [msg |-> kind, path |-> path, n |-> n, m |-> m]

\* history kept for stating properties; no operation reads it
Hist0(f) ==
    [fs0 |-> f,                \* the filesystem before the run
     attempts |-> <<>>,        \* the input paths process_image was called on
     returned |-> <<>>,        \* the values those calls returned
     failed |-> FALSE,         \* a step of the current process_image call raised
     src |-> NoImg,            \* the image the current call decoded
     resize |-> <<0, 0>>,      \* the width, height the current call was given
     interrupted |-> "no",     \* the position at which the interrupt arrived
     escaped |-> "no",         \* the position whose exception reached __main__
     found |-> "no"]           \* whether find_image_files has returned

Running == pc \notin {"done", "exited"}

\* an exception raised by a step inside process_image's try block
RaiseInImage ==
    /\ pc' = "pi_except"
    /\ hist' = [hist EXCEPT !.failed = TRUE]

----------------------------------------------------------------------------
(* process_image, lines 127-165, one action per step of the try block *)

\* line 129: img = Image.open(input_path)
PI_Open ==
    /\ pc = "pi_open"
    /\ \/ /\ IsFile(fs, io.input_path)
          /\ fs[io.input_path].data.mode \in Modes
          /\ fs[io.input_path].data.complete
          /\ img' = [mode |-> fs[io.input_path].data.mode,
                     size |-> fs[io.input_path].data.size]
          /\ hist' = [hist EXCEPT !.src = img']
          /\ pc' = "pi_mode"
       \/ /\ RaiseInImage
          /\ UNCHANGED img
    /\ UNCHANGED <<args, fs, fmt, image_files, idx, success_count, io, wh, ret,
                   result, log, exit_status>>

\* lines 132-136: img = img.convert(...)
PI_Mode ==
    /\ pc = "pi_mode"
    /\ \/ /\ img' = [img EXCEPT !.mode = ConvertedMode(img.mode, args.grayscale, fmt)]
          /\ pc' = "pi_resize"
          /\ UNCHANGED hist
       \/ /\ RaiseInImage
          /\ UNCHANGED img
    /\ UNCHANGED <<args, fs, fmt, image_files, idx, success_count, io, wh, ret,
                   result, log, exit_status>>

\* lines 139-148: the missing dimension is computed and img is resized; the
\* library rejects a size that is not positive
PI_Resize ==
    /\ pc = "pi_resize"
    /\ IF wh = <<0, 0>>
       THEN /\ pc' = "pi_makedirs"
            /\ UNCHANGED <<img, wh, hist>>
       ELSE /\ wh' = NewSize(wh[1], wh[2], img.size)
            /\ \/ /\ wh'[1] > 0 /\ wh'[2] > 0
                  /\ img' = [img EXCEPT !.size = wh']
                  /\ pc' = "pi_makedirs"
                  /\ UNCHANGED hist
               \/ /\ RaiseInImage
                  /\ UNCHANGED img
    /\ UNCHANGED <<args, fs, fmt, image_files, idx, success_count, io, ret,
                   result, log, exit_status>>

\* line 151: os.makedirs(os.path.dirname(os.path.abspath(output_path)), exist_ok=True)
PI_Makedirs ==
    /\ pc = "pi_makedirs"
    /\ \/ /\ ~MakedirsRaises(fs, dirname(io.output_path))
          /\ fs' = Makedirs(fs, dirname(io.output_path))
          /\ pc' = "pi_save_open"
          /\ UNCHANGED hist
       \/ /\ RaiseInImage
          /\ UNCHANGED fs
    /\ UNCHANGED <<args, fmt, image_files, idx, success_count, io, img, wh, ret,
                   result, log, exit_status>>

\* line 160, img.save: the destination is opened for writing, which creates
\* or truncates it
PI_SaveOpen ==
    /\ pc = "pi_save_open"
    /\ \/ /\ ~IsDir(fs, io.output_path)
          /\ fs' = Write(fs, io.output_path,
                         File(Image(io.input_path, img.mode, img.size, FALSE)))
          /\ io' = [io EXCEPT !.created = ~Exists(fs, io.output_path)]
          /\ pc' = "pi_save_write"
          /\ UNCHANGED hist
       \/ /\ RaiseInImage
          /\ UNCHANGED <<fs, io>>
    /\ UNCHANGED <<args, fmt, image_files, idx, success_count, img, wh, ret,
                   result, log, exit_status>>

\* lines 160-161, img.save: the image is encoded into the open file, and
\* process_image returns True.  When the encoder raises, the library leaves
\* the file as it is or, if the save created it, removes it.
PI_SaveWrite ==
    /\ pc = "pi_save_write"
    /\ \/ /\ Writable(fmt, img.mode)
          /\ fs' = Write(fs, io.output_path,
                         File(Image(io.input_path, img.mode, img.size, TRUE)))
          /\ ret' = TRUE
          /\ pc' = "pi_return"
          /\ hist' = [hist EXCEPT !.returned = Append(@, TRUE)]
       \/ /\ RaiseInImage
          /\ fs' \in {fs} \cup (IF io.created THEN {Remove(fs, io.output_path)} ELSE {})
          /\ UNCHANGED ret
    /\ UNCHANGED <<args, fmt, image_files, idx, success_count, io, img, wh,
                   result, log, exit_status>>

\* lines 163-165 with the exception handler returning True
ExceptReturns_True == TRUE

\* line 165: return False
ExceptReturns == FALSE

\* lines 163-165: except Exception as e: print(...input_path...); return False
PI_Except ==
    /\ pc = "pi_except"
    /\ log' = log \cup {Msg("error_processing_image", io.input_path, 0, 0)}
    /\ ret' = ExceptReturns
    /\ pc' = "pi_return"
    /\ hist' = [hist EXCEPT !.returned = Append(@, ret')]
    /\ UNCHANGED <<args, fs, fmt, image_files, idx, success_count, io, img, wh,
                   result, exit_status>>

\* a call of process_image(input_path, output_path, ...): the state at line 127
CallImage(input_path, output_path) ==
    /\ io' = [input_path |-> input_path, output_path |-> output_path,
              created |-> FALSE]
    /\ wh' = <<args.width, args.height>>
    /\ img' = NoImg
    /\ hist' = [hist EXCEPT !.attempts = Append(@, input_path), !.failed = FALSE,
                            !.src = NoImg, !.resize = <<args.width, args.height>>]
    /\ pc' = "pi_open"

----------------------------------------------------------------------------
(* process_directory, lines 219-257 *)

\* lines 220-224: image_files = find_image_files(input_dir, recursive)
PD_Find ==
    /\ pc = "pd_find"
    /\ \E files \in find_image_files(fs, args.directory, args.recursive) :
          /\ image_files' = files
          /\ IF files = <<>>
             THEN /\ log' = log \cup {Msg("no_image_files_found", <<>>, 0, 0)}
                  /\ result' = <<0, 0>>
                  /\ pc' = "main_report"
             ELSE /\ pc' = "pd_makedirs"
                  /\ UNCHANGED <<log, result>>
    /\ hist' = [hist EXCEPT !.found = "yes"]
    /\ UNCHANGED <<args, fs, fmt, idx, success_count, io, img, wh, ret, exit_status>>

\* lines 227-235: os.makedirs(output_dir, exist_ok=True); success_count = 0
PD_Makedirs ==
    /\ pc = "pd_makedirs"
    /\ IF MakedirsRaises(fs, args.output)
       THEN /\ pc' = "unexpected"
            /\ hist' = [hist EXCEPT !.escaped = "pd_makedirs"]
            /\ UNCHANGED <<fs, idx, success_count>>
       ELSE /\ fs' = Makedirs(fs, args.output)
            /\ success_count' = 0
            /\ idx' = 1
            /\ pc' = "pd_loop"
            /\ UNCHANGED hist
    /\ UNCHANGED <<args, fmt, image_files, io, img, wh, ret, result, log, exit_status>>

\* line 257: the loop is over; return success_count, len(image_files)
PD_Return ==
    /\ pc = "pd_loop"
    /\ idx > Len(image_files)
    /\ result' = <<success_count, Len(image_files)>>
    /\ pc' = "main_report"
    /\ UNCHANGED <<args, fs, fmt, image_files, idx, success_count, io, img, wh,
                   ret, log, exit_status, hist>>

\* lines 236-254: the next input_path; its output_path; in recursive mode
\* os.makedirs of the mirrored subdirectory; the call of process_image
PD_Next ==
    /\ pc = "pd_loop"
    /\ idx <= Len(image_files)
    /\ LET input_path == image_files[idx]
           rel_dir == RelDir(input_path, args.directory)
           output_path == OutputPath(input_path, args.directory, args.output,
                                     args.recursive, fmt)
           mirror == args.recursive /\ rel_dir # <<>>
       IN  IF mirror /\ MakedirsRaises(fs, args.output \o rel_dir)
           THEN /\ pc' = "unexpected"
                /\ hist' = [hist EXCEPT !.escaped = "pd_loop"]
                /\ UNCHANGED <<fs, io, img, wh>>
           ELSE /\ fs' = IF mirror THEN Makedirs(fs, args.output \o rel_dir) ELSE fs
                /\ CallImage(input_path, output_path)
    /\ UNCHANGED <<args, fmt, image_files, idx, success_count, ret, result, log,
                   exit_status>>

\* lines 254-255: if process_image(...): success_count += 1
PD_After ==
    /\ pc = "pi_return"
    /\ args.input = None
    /\ success_count' = IF ret THEN success_count + 1 ELSE success_count
    /\ idx' = idx + 1
    /\ pc' = "pd_loop"
    /\ io' = NoIo /\ img' = NoImg /\ wh' = <<0, 0>> /\ ret' = FALSE
    /\ hist' = [hist EXCEPT !.failed = FALSE, !.src = NoImg, !.resize = <<0, 0>>]
    /\ UNCHANGED <<args, fs, fmt, image_files, result, log, exit_status>>

----------------------------------------------------------------------------
(* main, lines 259-328, and the handlers of lines 330-338 *)

\* lines 265-309: the checks of the arguments, the output format, and the
\* call of process_image (-i) or process_directory (-d)
Main ==
    /\ pc = "main"
    /\ IF args.input # None
       THEN IF ~IsFile(fs, args.input)
            THEN /\ log' = log \cup {Msg("input_file_does_not_exist", <<>>, 0, 0)}
                 /\ pc' = "done"
                 /\ exit_status' = 0
                 /\ UNCHANGED <<fmt, io, img, wh, hist>>
            ELSE /\ fmt' = get_output_format(args.output, args.type)
                 /\ CallImage(args.input, args.output)
                 /\ UNCHANGED <<log, exit_status>>
       ELSE IF ~IsDir(fs, args.directory)
            THEN /\ log' = log \cup {Msg("input_directory_does_not_exist", <<>>, 0, 0)}
                 /\ pc' = "done"
                 /\ exit_status' = 0
                 /\ UNCHANGED <<fmt, io, img, wh, hist>>
            ELSE IF ~Truthy(args.type)
            THEN /\ log' = log \cup {Msg("output_format_must_be_specified", <<>>, 0, 0)}
                 /\ pc' = "done"
                 /\ exit_status' = 0
                 /\ UNCHANGED <<fmt, io, img, wh, hist>>
            ELSE /\ fmt' = FormatLookup(lower(args.type))
                 /\ pc' = "pd_find"
                 /\ UNCHANGED <<log, exit_status, io, img, wh, hist>>
    /\ UNCHANGED <<args, fs, image_files, idx, success_count, ret, result>>

\* lines 281-292 and 327-328: the outcome of the single conversion is printed
Main_After ==
    /\ pc = "pi_return"
    /\ args.input # None
    /\ log' = log \cup {IF ret THEN Msg("image_successfully_converted", args.output, 0, 0)
                        ELSE Msg("error_while_converting", <<>>, 0, 0)}
    /\ pc' = "done"
    /\ exit_status' = 0
    /\ UNCHANGED <<args, fs, fmt, image_files, idx, success_count, io, img, wh,
                   ret, result, hist>>

\* lines 322-325 printing the summary whatever total_count is
ReportMsg_Summary(success, total) ==
    Msg("images_successfully_converted", <<>>, success, total)

\* lines 322-325: the line main prints for (success_count, total_count)
ReportMsg(success, total) ==
    IF total = 0
    THEN Msg("no_image_files_found", <<>>, 0, 0)
    ELSE Msg("images_successfully_converted", <<>>, success, total)

\* lines 311-328: the outcome of the batch is printed
Main_Report ==
    /\ pc = "main_report"
    /\ log' = log \cup {ReportMsg(result[1], result[2])}
    /\ pc' = "done"
    /\ exit_status' = 0
    /\ UNCHANGED <<args, fs, fmt, image_files, idx, success_count, io, img, wh,
                   ret, result, hist>>

\* lines 336-338: except Exception: print; sys.exit(1)
Unexpected ==
    /\ pc = "unexpected"
    /\ log' = log \cup {Msg("unexpected_error", <<>>, 0, 0)}
    /\ exit_status' = 1
    /\ pc' = "exited"
    /\ UNCHANGED <<args, fs, fmt, image_files, idx, success_count, io, img, wh,
                   ret, result, hist>>

\* lines 333-335: KeyboardInterrupt is raised in the control thread wherever
\* it is; no handler below __main__ catches it (line 163 catches Exception)
Interrupt ==
    /\ Running
    /\ log' = log \cup {Msg("processing_interrupted_by_user", <<>>, 0, 0)}
    /\ exit_status' = 0
    /\ pc' = "exited"
    /\ hist' = [hist EXCEPT !.interrupted = pc]
    /\ UNCHANGED <<args, fs, fmt, image_files, idx, success_count, io, img, wh,
                   ret, result>>

----------------------------------------------------------------------------
(* The runs that are checked *)

MaxEntries == 3     \* entries of the input directory in a batch run
MaxDim == 15        \* largest image side and requested dimension

in_dir == <<"i","n">>
out_dir == <<"o","u","t">>
sub == <<"s","u","b">>
a_png == <<"a",".","p","n","g">>
a_jpg == <<"a",".","j","p","g">>
c_png == <<"c",".","p","n","g">>
B_PNG == <<"B",".","P","N","G">>
notes_txt == <<"n","o","t","e","s",".","t","x","t">>
x_jpg == <<"x",".","j","p","g">>
x_PNG == <<"x",".","P","N","G">>
x_tar_gz == <<"x",".","t","a","r",".","g","z">>
dot_png == <<".","p","n","g">>
noext == <<"p","h","o","t","o">>
JPG == <<"J","P","G">>
Tiff == <<"T","i","f","f">>
heic == <<"h","e","i","c">>

TextFile == File(Image(Original, "none", <<0, 0>>, TRUE))
SourceImage(mode, size) == File(Image(Original, mode, size, TRUE))

\* the filesystem holding the <<path, entry>> pairs given
FsOf(pairs) == [p \in {x[1] : x \in pairs} |-> (CHOOSE x \in pairs : x[1] = p)[2]]

\* what the input directory of a batch run may hold
Entry(i) ==
    CASE i = 1 -> {<< <<in_dir, a_png>>, SourceImage("RGB", <<4, 3>>) >>}
      [] i = 2 -> {<< <<in_dir, a_jpg>>, SourceImage("RGB", <<4, 3>>) >>}
      [] i = 3 -> {<< <<in_dir, a_jpg>>, Dir >>,
                   << <<in_dir, a_jpg, c_png>>, SourceImage("RGB", <<4, 3>>) >>}
      [] i = 4 -> {<< <<in_dir, notes_txt>>, TextFile >>}
      [] i = 5 -> {<< <<in_dir, sub>>, Dir >>,
                   << <<in_dir, sub, a_png>>, SourceImage("RGB", <<4, 3>>) >>}
      [] i = 6 -> {<< <<in_dir, B_PNG>>, SourceImage("RGB", <<4, 3>>) >>}

Trees ==
    {T \in SUBSET (1..6) : Cardinality(T) <= MaxEntries /\ ~({2, 3} \subseteq T)}

TreeFs(T) ==
    FsOf({<< <<>>, Dir >>, << <<in_dir>>, Dir >>} \cup UNION {Entry(i) : i \in T})

IdleRun ==
    /\ fmt = "none"
    /\ image_files = NoFiles
    /\ idx = 0
    /\ success_count = 0
    /\ io = NoIo
    /\ ret = FALSE
    /\ result = NoResult
    /\ log = {}
    /\ exit_status = -1

Idle ==
    /\ IdleRun
    /\ img = NoImg
    /\ wh = <<0, 0>>
    /\ hist = Hist0(fs)

\* python image_converter.py -d in -o <out|in> [-t <type>] [-r] [-g] [-w W]
Init ==
    /\ pc = "main"
    /\ fs \in {TreeFs(T) : T \in Trees} \cup {FsOf({<< <<>>, Dir >>})}
    /\ args \in [input : {None}, directory : {<<in_dir>>}, output : {<<out_dir>>, <<in_dir>>},
                 type : {None, jpg, webp}, width : {0, 2}, height : {0},
                 recursive : BOOLEAN, grayscale : BOOLEAN]
    /\ Idle

Next ==
    \/ Main \/ PD_Find \/ PD_Makedirs \/ PD_Next \/ PD_Return \/ PD_After
    \/ PI_Open \/ PI_Mode \/ PI_Resize \/ PI_Makedirs \/ PI_SaveOpen
    \/ PI_SaveWrite \/ PI_Except
    \/ Main_Report \/ Unexpected \/ Interrupt

Spec == Init /\ [][Next]_vars

\* python image_converter.py -i in/a.png -o <path> [-t <type>] [-g] [-w W] [-h H]
InitImage ==
    /\ pc = "main"
    /\ fs \in {FsOf({<< <<>>, Dir >>, << <<in_dir>>, Dir >>,
                     << <<in_dir, a_png>>, SourceImage(m, <<4, 3>>) >>}) : m \in Modes}
              \cup {FsOf({<< <<>>, Dir >>})}
    /\ args \in [input : {<<in_dir, a_png>>}, directory : {None},
                 output : {<<out_dir, x_jpg>>, <<x_PNG>>, <<in_dir, a_png>>},
                 type : {None} \cup FormatKeys,
                 width : {0, 2}, height : {0, 2},
                 recursive : {FALSE}, grayscale : BOOLEAN]
    /\ Idle

NextImage ==
    \/ Main
    \/ PI_Open \/ PI_Mode \/ PI_Resize \/ PI_Makedirs \/ PI_SaveOpen
    \/ PI_SaveWrite \/ PI_Except
    \/ Main_After \/ Interrupt

SpecImage == InitImage /\ [][NextImage]_vars

\* the resize step of process_image (lines 139-148) on an image of every
\* size up to MaxDim, for every requested width, height up to MaxDim
InitResize ==
    /\ pc = "pi_resize"
    /\ fs = FsOf({<< <<>>, Dir >>})
    /\ args \in [input : {<<in_dir, a_png>>}, directory : {None}, output : {<<x_jpg>>},
                 type : {None}, width : 0..MaxDim, height : 0..MaxDim,
                 recursive : {FALSE}, grayscale : {FALSE}]
    /\ args.width = 0 \/ args.height = 0 \/ args.width = args.height
    /\ IdleRun
    /\ img \in [mode : {"RGB"}, size : (1..MaxDim) \X (1..MaxDim)]
    /\ wh = <<args.width, args.height>>
    /\ hist = [Hist0(fs) EXCEPT !.src = img, !.resize = wh]

NextResize == PI_Resize

SpecResize == InitResize /\ [][NextResize]_vars

\* get_output_format on every output path and explicit format name below
FormatPaths ==
    {<<x_jpg>>, <<out_dir, x_PNG>>, <<noext>>, <<x_tar_gz>>, <<dot_png>>,
     <<a_png, noext>>, <<in_dir, notes_txt>>, <<B_PNG>>, <<out_dir, sub, a_jpg>>}
FormatNames ==
    {None, <<>>, heic, JPG, Tiff, dot_png} \cup FormatKeys

InitFormat ==
    /\ pc = "resolve"
    /\ fs = FsOf({<< <<>>, Dir >>})
    /\ args \in [input : {<<in_dir, a_png>>}, directory : {None},
                 output : FormatPaths, type : FormatNames, width : {0},
                 height : {0}, recursive : {FALSE}, grayscale : {FALSE}]
    /\ Idle

\* line 276: output_format = get_output_format(args.output, args.type)
Resolve ==
    /\ pc = "resolve"
    /\ fmt' = get_output_format(args.output, args.type)
    /\ pc' = "resolved"
    /\ UNCHANGED <<args, fs, image_files, idx, success_count, io, img, wh, ret,
                   result, log, exit_status, hist>>

NextFormat == Resolve

SpecFormat == InitFormat /\ [][NextFormat]_vars

----------------------------------------------------------------------------
(* Properties *)

\* the alias table as the specification gives it: alias -> canonical format
Canonical(alias) ==
    CASE alias \in {jpg, jpeg} -> "JPEG"
      [] alias = png -> "PNG"
      [] alias = webp -> "WEBP"
      [] alias = bmp -> "BMP"
      [] alias = tiff -> "TIFF"
      [] alias = gif -> "GIF"
      [] OTHER -> "none"

SameIgnoringCase(s, t) ==
    /\ Len(s) = Len(t)
    /\ \A i \in DOMAIN s : LowerChar(s[i]) = LowerChar(t[i])

\* the aliases a name is, case-insensitively
AliasesOf(name) == {k \in FormatKeys : SameIgnoringCase(name, k)}

\* name is <stem>.<ext>: ext follows the last dot, and the stem is more than dots
HasExtension(name, ext) ==
    \E i \in DOMAIN name :
        /\ name[i] = "."
        /\ SubSeq(name, i + 1, Len(name)) = ext
        /\ \A j \in DOMAIN ext : ext[j] # "."
        /\ \E j \in 1..(i - 1) : name[j] # "."

\* the aliases the extension of a path's last component is, case-insensitively
ExtensionAliases(path) ==
    {k \in FormatKeys :
        \E e \in {SubSeq(basename(path), i, Len(basename(path))) :
                     i \in 1..(Len(basename(path)) + 1)} :
            HasExtension(basename(path), e) /\ SameIgnoringCase(e, k)}

\* a name ends in a dot followed by an alias, case-insensitively
NamedAsImage(name) ==
    \E i \in DOMAIN name, k \in FormatKeys :
        name[i] = "." /\ SameIgnoringCase(SubSeq(name, i + 1, Len(name)), k)

\* the paths strictly below directory d
Below(f, d) == {p \in DOMAIN f : Len(p) > Len(d) /\ SubSeq(p, 1, Len(d)) = d}

Range(q) == {q[i] : i \in DOMAIN q}

\* the files a run has written completely
Converted(f) ==
    {p \in DOMAIN f : f[p].kind = "file" /\ f[p].data.src # Original
                      /\ f[p].data.complete}

\* the files left open for writing, their encoding unfinished
Partial(f) == {p \in DOMAIN f : f[p].kind = "file" /\ ~f[p].data.complete}

InBatch == args.input = None
AfterFind == hist.found = "yes"
Over == pc \in {"done", "exited"}

\* C1: a batch run whose enumerator found the list F attempts process_image
\* once on every file of F, whatever fails, and returns (successes, total)
\* with total = |F|, successes = the number of calls that returned True and
\* 0 <= successes <= total.
C1_BatchAttemptsAll ==
    (InBatch /\ Over /\ AfterFind /\ hist.interrupted = "no") =>
        /\ hist.attempts = image_files
        /\ result[2] = Len(image_files)
        /\ result[1] = Cardinality({i \in DOMAIN hist.returned : hist.returned[i]})
        /\ 0 <= result[1] /\ result[1] <= result[2]

\* C2: a failure at any step of process_image is caught, reported with the
\* input path and turned into the return value False; True is returned only
\* when every step including the save completed; no failure of a step
\* leaves process_image as an exception.
C2_NeverRaises ==
    /\ pc = "pi_return" => ret = ~hist.failed
    /\ (pc = "pi_return" /\ hist.failed) =>
           Msg("error_processing_image", io.input_path, 0, 0) \in log
    /\ (pc = "pi_return" /\ ret) =>
           /\ IsFile(fs, io.output_path)
           /\ fs[io.output_path].data = Image(io.input_path, img.mode, img.size, TRUE)
    /\ hist.failed =>
           \/ pc \in {"pi_except", "pi_return"}
           \/ pc = "exited" /\ hist.interrupted # "no"
    /\ exit_status = 1 => ~hist.failed

\* C2: in a batch, a file fails after an earlier file was converted
C2_Witness ==
    /\ InBatch /\ pc = "pi_return" /\ hist.failed /\ ~ret
    /\ idx >= 2 /\ success_count >= 1

\* C3 as stated: get_output_format returns a canonical format for every
\* explicit format name and every output path, and never fails; a given
\* explicit name wins, mapped case-insensitively through the alias table;
\* otherwise the path's lower-cased extension decides, and JPEG is the
\* result when that extension is no alias.
C3_AlwaysCanonical ==
    pc = "resolved" =>
        /\ fmt \in Formats
        /\ args.type # None =>
               \A k \in AliasesOf(args.type) : fmt = Canonical(k)
        /\ args.type = None =>
               IF ExtensionAliases(args.output) # {}
               THEN \A k \in ExtensionAliases(args.output) : fmt = Canonical(k)
               ELSE fmt = "JPEG"

\* C3 as amended: an explicit name that is an alias (case-insensitively)
\* wins; an explicit name that is no alias raises KeyError; with no explicit
\* name, or an empty one, the format is that of the output path's extension,
\* and JPEG when the extension is no alias.
C3_Resolves ==
    pc = "resolved" =>
        IF args.type # None /\ args.type # <<>>
        THEN IF AliasesOf(args.type) # {}
             THEN \A k \in AliasesOf(args.type) : fmt = Canonical(k)
             ELSE fmt = KeyError
        ELSE IF ExtensionAliases(args.output) # {}
             THEN \A k \in ExtensionAliases(args.output) : fmt = Canonical(k)
             ELSE fmt = "JPEG"

\* C3: an explicit name in upper case wins over the path's extension
C3_Witness ==
    /\ pc = "resolved" /\ args.type = JPG /\ args.output = <<out_dir, x_PNG>>
    /\ fmt = "JPEG"

\* n is an integer nearest to num / den
Nearest(n, num, den) == 2 * (n * den - num) <= den /\ 2 * (num - n * den) <= den

\* C4: a width-only request W on an image of size (ow, oh) resizes it to
\* (W, round(oh * W / ow)), and a height-only request H to
\* (round(ow * H / oh), H); round is to a nearest integer, either way on a tie.
C4_Rounded ==
    (pc = "pi_makedirs" /\ hist.resize # <<0, 0>>) =>
        LET W == hist.resize[1]
            H == hist.resize[2]
            ow == hist.src.size[1]
            oh == hist.src.size[2]
        IN  /\ (W > 0 /\ H = 0) => img.size[1] = W /\ Nearest(img.size[2], oh * W, ow)
            /\ (H > 0 /\ W = 0) => img.size[2] = H /\ Nearest(img.size[1], ow * H, oh)

\* C5: a source whose mode has an alpha channel, converted to JPEG without
\* the grayscale flag, is flattened to RGB before it is encoded, and the
\* encoder does not reject it.
C5_AlphaFlattened ==
    (/\ pc \in {"pi_resize", "pi_makedirs", "pi_save_open", "pi_save_write"}
     /\ HasAlpha(hist.src.mode) /\ fmt = "JPEG" /\ ~args.grayscale) =>
        /\ img.mode = "RGB"
        /\ Writable(fmt, img.mode)

\* C6: with the grayscale flag, whatever the source mode, the target format
\* and the resize, img is in mode L from the conversion step on, and a
\* successful call has written a single-channel (mode L) image.
C6_Grayscale ==
    args.grayscale =>
        /\ pc \in {"pi_resize", "pi_makedirs", "pi_save_open", "pi_save_write"} =>
               img.mode = "L"
        /\ (pc = "pi_return" /\ ret) =>
               /\ fs[io.output_path].data.mode = "L"
               /\ Channels(fs[io.output_path].data.mode) = 1
               /\ fs[io.output_path].data.complete

\* C6: an RGBA source is converted to a grayscale JPEG and resized
C6_Witness ==
    /\ pc = "pi_return" /\ ret /\ args.grayscale
    /\ hist.src.mode = "RGBA" /\ fmt = "JPEG" /\ hist.resize = <<2, 0>>
    /\ fs[io.output_path].data.size = <<2, 1>>

\* C7: find_image_files returns exactly the files in scope that are named
\* as images, each once; the scope is the immediate children (non-recursive)
\* or the whole subtree (recursive).
C7_EnumeratesFiles ==
    (InBatch /\ AfterFind /\ fs = hist.fs0) =>
        LET scope == IF args.recursive THEN Below(fs, args.directory)
                     ELSE Children(fs, args.directory)
        IN  /\ Range(image_files) =
                   {p \in scope : IsFile(fs, p) /\ NamedAsImage(basename(p))}
            /\ Cardinality(Range(image_files)) = Len(image_files)

\* C8: process_directory returns total = 0 exactly when the enumerator found
\* nothing; it then returns (0, 0) and has created or written nothing; main
\* then prints the 'no image files found' line and never the 'N/M images
\* successfully converted' line, which it prints whenever total >= 1.
C8_EmptyBatch ==
    (InBatch /\ result # NoResult) =>
        /\ result[2] = 0 <=> image_files = <<>>
        /\ result[2] = 0 => result = <<0, 0>> /\ fs = hist.fs0
        /\ pc = "done" =>
               IF result[2] = 0
               THEN /\ Msg("no_image_files_found", <<>>, 0, 0) \in log
                    /\ \A m \in log : m.msg # "images_successfully_converted"
               ELSE /\ Msg("images_successfully_converted", <<>>,
                           result[1], result[2]) \in log
                    /\ \A m \in log : m.msg # "no_image_files_found"

\* C8: a directory that holds only a file that is no image, after the run
C8_Witness ==
    /\ InBatch /\ pc = "done" /\ result = <<0, 0>>
    /\ IsFile(fs, <<in_dir, notes_txt>>)
    /\ ~Exists(fs, <<out_dir>>)
    /\ Msg("no_image_files_found", <<>>, 0, 0) \in log

\* C9: when an interrupt is delivered during a batch, the file being
\* converted is finished and no other is started, the exit status is 0, and
\* no partially written output file remains.
C9_CleanInterrupt ==
    (InBatch /\ hist.interrupted # "no") =>
        /\ exit_status = 0
        /\ Len(hist.returned) = Len(hist.attempts)
        /\ Partial(fs) = {}

\* C10: distinct enumerated files have distinct destinations, no destination
\* is an enumerated file that is still to be processed, and after the run as
\* many converted files exist as conversions succeeded.
C10_DistinctDestinations ==
    (InBatch /\ AfterFind /\ fmt \in Formats) =>
        LET dest(i) == OutputPath(image_files[i], args.directory, args.output,
                                  args.recursive, fmt)
        IN  /\ \A i, j \in DOMAIN image_files : i # j => dest(i) # dest(j)
            /\ \A i, j \in DOMAIN image_files : i < j => dest(i) # image_files[j]
            /\ (pc = "done" /\ result # NoResult) =>
                   Cardinality(Converted(fs)) = result[1]

====
